---- MODULE Spec2Model ----
(***************************************************************************)
(* Game of Life on a toroidal grid (src/src/app/app.component.ts).         *)
(* The model covers the Field reducer (initAction, setStatusAction,        *)
(* tickAction/tick), the topology function getNeighbours and the control   *)
(* stream that derives Tick events from play$ and the interval setting.    *)
(*                                                                         *)
(* Arrays and maps are 0-based functions: status is a function on          *)
(* 0..length-1, neighbours a function from cell index to its 8-tuple.      *)
(* A hole of a sparse JavaScript array reads as undefined, which every     *)
(* reader of status treats as falsy; it is modelled as FALSE.              *)
(*                                                                         *)
(* ngAfterViewInit writes a CSS property value, a string, into the width   *)
(* control, so a settings emission carries width either as a number or as  *)
(* a string.  With a string width the + of getNeighbours concatenates and  *)
(* neighbour lists hold strings.  A string is never an array index or a    *)
(* key of the neighbour map; it is represented by a negative integer       *)
(* (Str), different strings by different integers.                         *)
(***************************************************************************)
EXTENDS Integers, FiniteSets, Sequences, TLC

\* ------------------------------------------------------------------ bounds
\* grids of the event pipeline (Spec): sides 1..MaxSide, at most MaxCells cells
MaxSide == 2
MaxCells == 4
\* grids of an emission whose width is a string: at most TextMaxCells cells
TextMaxCells == 1
\* the same for the reducer with resizes (SpecResized): up to 3 rows, so that
\* the row above the last row is not the first row
ResizedTextMaxCells == 3
\* grids of the reducer taken alone (SpecField): sides 3..FieldMaxSide, on which
\* the 8 neighbours of a cell are 8 different cells, at most FieldMaxCells cells
FieldMaxSide == 4
FieldMaxCells == 14
\* interval settings, in time units
MaxInterval == 2
\* grids getNeighbours is called on alone (SpecNeighbours): sides 1..NeighbourMaxSide
NeighbourMaxSide == 5
\* grids patterns are placed on (SpecPattern): sides 5..PatternMaxSide, and
\* the number of Ticks a pattern is followed for
PatternMaxSide == 6
MaxGenerations == 4
\* grids of the observed pipeline (SpecObserved): at most ObservedMaxCells
\* cells; the observer follows a timer session for MaxElapsed time units
ObservedMaxCells == 2
MaxElapsed == 4

Dims == {d \in (1..MaxSide) \X (1..MaxSide) : d[1] * d[2] <= MaxCells}
FieldDims == {d \in (3..FieldMaxSide) \X (3..FieldMaxSide) : d[1] * d[2] <= FieldMaxCells}
Intervals == 1..MaxInterval
NeighbourDims == (1..NeighbourMaxSide) \X (1..NeighbourMaxSide)
PatternDims == (5..PatternMaxSide) \X (5..PatternMaxSide)
ObservedDims ==
  {d \in (1..ObservedMaxCells) \X (1..ObservedMaxCells) : d[1] * d[2] <= ObservedMaxCells}
\* what a settings emission carries for the grid: <<height, width>> both
\* numbers, or height a number and width the string of a number ('' for 0)
TextDims == {d \in (1..TextMaxCells) \X (0..TextMaxCells) : d[1] * d[2] <= TextMaxCells}
Emissions == (Dims \X {FALSE}) \cup (TextDims \X {TRUE})
ObservedEmissions == (ObservedDims \X {FALSE}) \cup (TextDims \X {TRUE})
ResizedTextDims ==
  {d \in (1..ResizedTextMaxCells) \X (0..ResizedTextMaxCells) :
     d[1] * d[2] <= ResizedTextMaxCells}
ResizedEmissions == (Dims \X {FALSE}) \cup (ResizedTextDims \X {TRUE})
\* indices a set-status event may carry while the Field has no cells yet
PreInitIndices == 0..(MaxSide - 1)

VARIABLES
  status,                        \* Field.status
  aliveCells,                    \* Field.aliveCells
  deadCellsWithAliveNeighbours,  \* Field.deadCellsWithAliveNeighbours
  neighbours,                    \* Field.neighbours
  failed,                        \* the scan accumulator threw: field$ ended with an error
  settings,                      \* last value emitted by settings$ (shareReplay(1)), or NoSettings
  playing,                       \* the inner stream of tick$'s switchMap is subscribed
  timer,                         \* the interval() timer of interval$: "none", "scheduled", "cleared"
  remaining,                     \* time units until the scheduled timer fires next
  lastAction,                    \* the action the reducer handled last
  observer,                      \* what an observer of the pipeline recorded (SpecObserved)
  pattern,                       \* the pattern placed on the grid and its age (SpecPattern)
  query                          \* a call of getNeighbours and its result (SpecNeighbours)

fieldVars == <<status, aliveCells, deadCellsWithAliveNeighbours, neighbours>>
controlVars == <<settings, playing, timer, remaining>>
vars == <<status, aliveCells, deadCellsWithAliveNeighbours, neighbours,
          failed, settings, playing, timer, remaining, lastAction,
          observer, pattern, query>>

\* the variables that only SpecObserved, SpecPattern and SpecNeighbours use
NoObserver == [event |-> "none"]
NoPattern == [kind |-> "none"]
NoQuery == [height |-> 0, width |-> 0, index |-> 0, result |-> <<>>]

\* settings.text: the width of the emission is a string (of the number width)
NoSettings == [height |-> 0, width |-> 0, text |-> FALSE, interval |-> 0]

\* ---------------------------------------------------------------- topology
\* getNeighbours with the right neighbour never wrapped to the start of the row
getNeighboursNoRightWrap(index, height, width) ==
  LET dimension == height * width
      topNeighbourOffset == IF index < width THEN dimension - width ELSE -width
      bottomNeighbourOffset ==
        IF index >= (height - 1) * width THEN -dimension + width ELSE width
      leftNeighbourOffset == IF index % width = 0 THEN width - 1 ELSE -1
      rightNeighbourOffset == 1
  IN << index + topNeighbourOffset + leftNeighbourOffset,
        index + topNeighbourOffset,
        index + topNeighbourOffset + rightNeighbourOffset,
        index + leftNeighbourOffset,
        index + rightNeighbourOffset,
        index + bottomNeighbourOffset + leftNeighbourOffset,
        index + bottomNeighbourOffset,
        index + bottomNeighbourOffset + rightNeighbourOffset >>

\* getNeighbours with the last row recognised by > instead of >=
getNeighboursBottomOffByOne(index, height, width) ==
  LET dimension == height * width
      topNeighbourOffset == IF index < width THEN dimension - width ELSE -width
      bottomNeighbourOffset ==
        IF index > (height - 1) * width THEN -dimension + width ELSE width
      leftNeighbourOffset == IF index % width = 0 THEN width - 1 ELSE -1
      rightNeighbourOffset == IF index % width = width - 1 THEN -width + 1 ELSE 1
  IN << index + topNeighbourOffset + leftNeighbourOffset,
        index + topNeighbourOffset,
        index + topNeighbourOffset + rightNeighbourOffset,
        index + leftNeighbourOffset,
        index + rightNeighbourOffset,
        index + bottomNeighbourOffset + leftNeighbourOffset,
        index + bottomNeighbourOffset,
        index + bottomNeighbourOffset + rightNeighbourOffset >>

getNeighbours(index, height, width) ==
  LET dimension == height * width
      topNeighbourOffset == IF index < width THEN dimension - width ELSE -width
      bottomNeighbourOffset ==
        IF index >= (height - 1) * width THEN -dimension + width ELSE width
      leftNeighbourOffset == IF index % width = 0 THEN width - 1 ELSE -1
      rightNeighbourOffset == IF index % width = width - 1 THEN -width + 1 ELSE 1
  IN << index + topNeighbourOffset + leftNeighbourOffset,
        index + topNeighbourOffset,
        index + topNeighbourOffset + rightNeighbourOffset,
        index + leftNeighbourOffset,
        index + rightNeighbourOffset,
        index + bottomNeighbourOffset + leftNeighbourOffset,
        index + bottomNeighbourOffset,
        index + bottomNeighbourOffset + rightNeighbourOffset >>

\* the strings a neighbour list can hold have the text  index-body  or
\* index-body-minus  (index, body, minus decimal numbers; minus = 0: no such
\* part); Pair numbers the pairs of naturals one to one
Pair(a, b) == ((a + b) * (a + b + 1)) \div 2 + b

Str(index, body, minus) == -(1 + Pair(Pair(index, minus), body))

\* the decimal text of a followed by the decimal text of b, as a number
RECURSIVE Shift(_)
Shift(n) == IF n < 10 THEN 10 ELSE 10 * Shift(n \div 10)

Concat(a, b) == a * Shift(b) + b

\* getNeighbours when width is the string of the number width: *, -, %, <,
\* >= and unary + and - convert it to the number, binary + with a string
\* operand concatenates.  Only  -dimension + width  is such a +: in the last
\* row bottomNeighbourOffset is the string "-" dimension width, and adding
\* it to index, and a number to that, concatenates again.
getNeighboursOfText(index, height, width) ==
  LET dimension == height * width
      topNeighbourOffset == IF index < width THEN dimension - width ELSE -width
      lastRow == index >= (height - 1) * width
      leftNeighbourOffset == IF index % width = 0 THEN width - 1 ELSE -1
      rightNeighbourOffset == IF index % width = width - 1 THEN -width + 1 ELSE 1
      bottomPlus(offset) ==
        IF lastRow
          THEN IF offset >= 0
                 THEN Str(index, Concat(Concat(dimension, width), offset), 0)
                 ELSE Str(index, Concat(dimension, width), -offset)
          ELSE index + width + offset
      bottom == IF lastRow THEN Str(index, Concat(dimension, width), 0) ELSE index + width
  IN << index + topNeighbourOffset + leftNeighbourOffset,
        index + topNeighbourOffset,
        index + topNeighbourOffset + rightNeighbourOffset,
        index + leftNeighbourOffset,
        index + rightNeighbourOffset,
        bottomPlus(leftNeighbourOffset),
        bottom,
        bottomPlus(rightNeighbourOffset) >>

\* payload of an 'init' action: the map() of initField$
initField(height, width) ==
  [status |-> [i \in 0..(height * width - 1) |-> FALSE],
   neighbours |-> [i \in 0..(height * width - 1) |-> getNeighbours(i, height, width)]]

\* the same map() on an emission whose width is a string when text is TRUE
initFieldOf(height, width, text) ==
  IF text
    THEN [status |-> [i \in 0..(height * width - 1) |-> FALSE],
          neighbours |-> [i \in 0..(height * width - 1) |->
                            getNeighboursOfText(i, height, width)]]
    ELSE initField(height, width)

\* ------------------------------------------------------------------- Field
Field(st, al, dd, nb) ==
  [status |-> st, aliveCells |-> al, deadCellsWithAliveNeighbours |-> dd, neighbours |-> nb]

CurrentField == Field(status, aliveCells, deadCellsWithAliveNeighbours, neighbours)

\* the seed of scan
EmptyField == Field(<<>>, {}, {}, <<>>)

\* field.status[i] read for its truthiness (undefined outside the array)
StatusAt(st, i) == i \in DOMAIN st /\ st[i]

\* field.status[index] = value: an index past the end grows the array
StatusSet(st, index, value) ==
  IF index \in DOMAIN st
    THEN [st EXCEPT ![index] = value]
    ELSE [i \in 0..index |-> IF i = index THEN value ELSE StatusAt(st, i)]

\* the elements of a neighbour list
Elements(list) == {list[k] : k \in DOMAIN list}

\* ---------------------------------------------------------- Generation step
aliveNeighbours(field, index) ==
  Cardinality({k \in DOMAIN field.neighbours[index] :
                 StatusAt(field.status, field.neighbours[index][k])})

\* decideStatus with survival on 2 neighbours only (< 3 for <= 3)
decideStatusSurviveOnTwo(field, cellStatus, index) ==
  IF ~cellStatus
    THEN aliveNeighbours(field, index) = 3
    ELSE aliveNeighbours(field, index) >= 2 /\ aliveNeighbours(field, index) < 3

decideStatus(field, cellStatus, index) ==
  IF ~cellStatus
    THEN aliveNeighbours(field, index) = 3
    ELSE aliveNeighbours(field, index) >= 2 /\ aliveNeighbours(field, index) <= 3

\* the candidates of tick: [...aliveCells, ...deadCellsWithAliveNeighbours]
Candidates(field) == field.aliveCells \cup field.deadCellsWithAliveNeighbours

\* a filter that drops null only
NotNull(index) == TRUE

\* .filter((index) => !!index): a kept index must be truthy, and 0 is not
Truthy(index) == index # 0

\* a tick that looks up the neighbour list of cell 0 whatever the candidates
tickThrowsCellZero(field) ==
  \E index \in Candidates(field) \cup {0} : index \notin DOMAIN field.neighbours

\* tick throws when a candidate has no entry in field.neighbours
tickThrows(field) == \E index \in Candidates(field) : index \notin DOMAIN field.neighbours

tickAliveCells(field) ==
  {index \in Candidates(field) :
     decideStatus(field, StatusAt(field.status, index), index) /\ Truthy(index)}

tickDeadCells(field, alive) ==
  {n \in UNION {Elements(field.neighbours[index]) : index \in alive} : n \notin alive}

tick(field) ==
  LET alive == tickAliveCells(field)
  IN [status |-> [index \in DOMAIN field.status |-> index \in alive],
      aliveCells |-> alive,
      deadCellsWithAliveNeighbours |-> tickDeadCells(field, alive)]

tickAction(field) ==
  LET t == tick(field)
  IN Field(t.status, t.aliveCells, t.deadCellsWithAliveNeighbours, field.neighbours)

\* ------------------------------------------------------------- Edit handler
\* a repair that never removes anything from the frontier
noLonelyNeighbours(field, alive, nbs) == {}

\* the neighbours of the edited cell that have no alive neighbour (left):
\* neighbours.filter(n => !field.neighbours.get(n)!.some(m => aliveCells.has(m)))
lonelyNeighbours(field, alive, nbs) ==
  {n \in Elements(nbs) : ~\E m \in Elements(field.neighbours[n]) : m \in alive}

\* result of setStatusAction: the Field as the handler left it, and whether
\* it threw on the way (the in-place mutations made before the throw stay)
setStatusAction(field, index, value) ==
  LET st == StatusSet(field.status, index, value)
      known == index \in DOMAIN field.neighbours
      nbs == field.neighbours[index]
  IN IF value
       THEN LET alive == field.aliveCells \cup {index}
                dead1 == field.deadCellsWithAliveNeighbours \ {index}
            IN IF ~known
                 THEN [threw |-> TRUE, field |-> Field(st, alive, dead1, field.neighbours)]
                 ELSE [threw |-> FALSE,
                       field |-> Field(st, alive,
                                       dead1 \cup {n \in Elements(nbs) : n \notin alive},
                                       field.neighbours)]
       ELSE LET alive == field.aliveCells \ {index}
            IN IF ~known
                 THEN [threw |-> TRUE,
                       field |-> Field(st, alive, field.deadCellsWithAliveNeighbours,
                                       field.neighbours)]
                 ELSE LET dead1 == IF \E n \in Elements(nbs) : n \in alive
                                     THEN field.deadCellsWithAliveNeighbours \cup {index}
                                     ELSE field.deadCellsWithAliveNeighbours
                          unknown == \E n \in Elements(nbs) : n \notin DOMAIN field.neighbours
                      IN IF unknown
                           THEN [threw |-> TRUE,
                                 field |-> Field(st, alive, dead1, field.neighbours)]
                           ELSE [threw |-> FALSE,
                                 field |-> Field(st, alive,
                                                 dead1 \ lonelyNeighbours(field, alive, nbs),
                                                 field.neighbours)]

\* ------------------------------------------------------------------ reducer
initAction(field, payload) ==
  Field(payload.status, field.aliveCells, field.deadCellsWithAliveNeighbours,
        payload.neighbours)

SetField(f) ==
  /\ status' = f.status
  /\ aliveCells' = f.aliveCells
  /\ deadCellsWithAliveNeighbours' = f.deadCellsWithAliveNeighbours
  /\ neighbours' = f.neighbours

Init ==
  /\ status = EmptyField.status
  /\ aliveCells = EmptyField.aliveCells
  /\ deadCellsWithAliveNeighbours = EmptyField.deadCellsWithAliveNeighbours
  /\ neighbours = EmptyField.neighbours
  /\ failed = FALSE
  /\ settings = NoSettings
  /\ playing = FALSE
  /\ timer = "none"
  /\ remaining = 0
  /\ lastAction = "none"
  /\ observer = NoObserver
  /\ pattern = NoPattern
  /\ query = NoQuery

\* the error of the accumulator ends field$: merge unsubscribes its sources,
\* which unsubscribes tick$ and clears a scheduled timer
Shutdown ==
  /\ failed' = TRUE
  /\ playing' = FALSE
  /\ timer' = IF timer = "scheduled" THEN "cleared" ELSE timer
  /\ remaining' = 0
  /\ UNCHANGED settings

\* switchMap((time) => interval(time)) of interval$, seen from tick$'s inner subscription
startInterval(time) ==
  /\ timer' = "scheduled"
  /\ remaining' = time

\* settings$ emits a value: initField$ (subscribed first) passes it on when
\* height or width differ (!==: a number and its string differ) from the
\* previous emission, then interval$ (if the inner stream of tick$ is
\* subscribed) switches to a new interval().  Once the accumulator has
\* thrown, field$ has unsubscribed initField$ and tick$; settings$ is kept
\* by the setCssProperty subscriptions and shareReplay(1) and still emits,
\* but the value reaches neither the reducer nor a timer.
SettingsEmit(height, width, text, time) ==
  /\ settings' = [height |-> height, width |-> width, text |-> text, interval |-> time]
  /\ IF failed
       THEN UNCHANGED <<fieldVars, lastAction, timer, remaining>>
       ELSE /\ IF settings.height = height /\ settings.width = width /\ settings.text = text
                 THEN UNCHANGED <<fieldVars, lastAction>>
                 ELSE /\ SetField(initAction(CurrentField, initFieldOf(height, width, text)))
                      /\ lastAction' = "init"
            /\ IF playing THEN startInterval(time) ELSE UNCHANGED <<timer, remaining>>
  /\ UNCHANGED <<failed, playing>>

\* play$.next(true): start$ makes switchMap drop the inner stream and
\* subscribe a new one, to which shareReplay(1) replays the last settings
PlayStart ==
  /\ ~failed
  /\ playing' = TRUE
  /\ IF settings # NoSettings
       THEN startInterval(settings.interval)
       ELSE /\ timer' = IF timer = "scheduled" THEN "cleared" ELSE timer
            /\ remaining' = 0
  /\ UNCHANGED <<fieldVars, failed, settings, lastAction>>

\* play$.next(false) with the timer left running
PlayStopKeepsTimer ==
  /\ ~failed
  /\ playing' = FALSE
  /\ UNCHANGED <<fieldVars, failed, settings, lastAction, timer, remaining>>

\* play$.next(false): takeUntil(stop$) completes the inner stream, which
\* unsubscribes interval$ and clears its timer
PlayStop ==
  /\ ~failed
  /\ playing' = FALSE
  /\ timer' = IF timer = "scheduled" THEN "cleared" ELSE timer
  /\ remaining' = 0
  /\ UNCHANGED <<fieldVars, failed, settings, lastAction>>

\* one time unit passes without the timer firing
Advance ==
  /\ ~failed
  /\ timer = "scheduled"
  /\ remaining > 0
  /\ remaining' = remaining - 1
  /\ UNCHANGED <<fieldVars, failed, settings, playing, timer, lastAction>>

\* the interval timer fires: a 'tick' action reaches the reducer
Tick ==
  /\ ~failed
  /\ timer = "scheduled"
  /\ remaining = 0
  /\ lastAction' = "tick"
  /\ IF tickThrows(CurrentField)
       THEN /\ UNCHANGED fieldVars
            /\ Shutdown
       ELSE /\ SetField(tickAction(CurrentField))
            /\ remaining' = settings.interval
            /\ UNCHANGED <<failed, settings, playing, timer>>

\* setStatus$.next({index, status}): a 'set-status' action reaches the reducer
SetCell(index, value) ==
  /\ ~failed
  /\ lastAction' = "set-status"
  /\ LET r == setStatusAction(CurrentField, index, value)
     IN /\ SetField(r.field)
        /\ IF r.threw THEN Shutdown
                      ELSE UNCHANGED <<failed, settings, playing, timer, remaining>>

\* the indices a set-status event carries: a cell of the grid once there is
\* one, any index while the Field is still the seed
CellIndices == IF DOMAIN neighbours = {} THEN PreInitIndices ELSE DOMAIN status

Next ==
  \/ \E e \in Emissions, time \in Intervals :
       SettingsEmit(e[1][1], e[1][2], e[2], time) /\ UNCHANGED <<observer, pattern, query>>
  \/ PlayStart /\ UNCHANGED <<observer, pattern, query>>
  \/ PlayStop /\ UNCHANGED <<observer, pattern, query>>
  \/ Advance /\ UNCHANGED <<observer, pattern, query>>
  \/ Tick /\ UNCHANGED <<observer, pattern, query>>
  \/ \E index \in CellIndices, value \in BOOLEAN :
       SetCell(index, value) /\ UNCHANGED <<observer, pattern, query>>

Spec == Init /\ [][Next]_vars

\* ------------------------------------------------- the reducer taken alone
\* The fold of scan over an arbitrary stream of 'set-status' and 'tick'
\* actions, from the seed or from the Field an 'init' action makes of it.
\* The grids are those of a height and a width that are numbers.
InitField ==
  /\ \E d \in FieldDims \cup {<<0, 0>>} :
       /\ status = initAction(EmptyField, initField(d[1], d[2])).status
       /\ neighbours = initAction(EmptyField, initField(d[1], d[2])).neighbours
       /\ settings = [height |-> d[1], width |-> d[2], text |-> FALSE, interval |-> 0]
       /\ lastAction = IF d = <<0, 0>> THEN "none" ELSE "init"
  /\ aliveCells = EmptyField.aliveCells
  /\ deadCellsWithAliveNeighbours = EmptyField.deadCellsWithAliveNeighbours
  /\ failed = FALSE
  /\ playing = FALSE
  /\ timer = "none"
  /\ remaining = 0
  /\ observer = NoObserver
  /\ pattern = NoPattern
  /\ query = NoQuery

\* scan hands a 'tick' action to tickAction
FieldTick ==
  /\ ~failed
  /\ lastAction' = "tick"
  /\ IF tickThrows(CurrentField)
       THEN UNCHANGED fieldVars /\ failed' = TRUE
       ELSE SetField(tickAction(CurrentField)) /\ failed' = FALSE
  /\ UNCHANGED controlVars

\* scan hands a 'set-status' action to setStatusAction
FieldSetCell(index, value) ==
  /\ ~failed
  /\ lastAction' = "set-status"
  /\ LET r == setStatusAction(CurrentField, index, value)
     IN SetField(r.field) /\ failed' = r.threw
  /\ UNCHANGED controlVars

NextField ==
  \/ FieldTick /\ UNCHANGED <<observer, pattern, query>>
  \/ \E index \in CellIndices, value \in BOOLEAN :
       FieldSetCell(index, value) /\ UNCHANGED <<observer, pattern, query>>

SpecField == InitField /\ [][NextField]_vars

\* ------------------------------------------------------------ properties
\* every index that is a cell of the grid or a member of one of the two sets
Indices == DOMAIN status \cup aliveCells \cup deadCellsWithAliveNeighbours

\* some neighbour of i is alive (FALSE for an index without a neighbour list)
HasAliveNeighbour(i) ==
  i \in DOMAIN neighbours /\ \E n \in Elements(neighbours[i]) : StatusAt(status, n)

\* i in aliveCells <=> status[i]
AliveInvariant == \A i \in Indices : (i \in aliveCells) <=> StatusAt(status, i)

\* i in frontier <=> status[i] is false and some neighbour of i is alive
FrontierInvariant ==
  \A i \in Indices :
    (i \in deadCellsWithAliveNeighbours) <=> (~StatusAt(status, i) /\ HasAliveNeighbour(i))

\* B3/S23 applied to every cell of the grid, counting over neighbours[i]
NaiveAliveNeighbours(i) ==
  Cardinality({k \in DOMAIN neighbours[i] : StatusAt(status, neighbours[i][k])})

NaiveStatus ==
  [i \in DOMAIN status |->
     IF status[i] THEN NaiveAliveNeighbours(i) \in {2, 3}
                  ELSE NaiveAliveNeighbours(i) = 3]

\* an 'init' action has been handled and the accumulator has not thrown
\* (while it has not thrown, every settings emission reaches initField$)
Initialized == settings # NoSettings /\ ~failed

\* C1: on a Field in which both set invariants hold, one Tick yields at every
\* cell the status that B3/S23, applied naively to every cell over the same
\* neighbour map, yields.
C1_TickEqualsNaive ==
  [][(FieldTick /\ AliveInvariant /\ FrontierInvariant) => status' = NaiveStatus]_vars

\* C2: after any sequence of Initialize, SetCell (inside the grid) and Tick
\* events, i is in deadCellsWithAliveNeighbours iff status[i] is false and
\* some neighbour of i is alive.
C2_FrontierInvariant == Initialized => FrontierInvariant

\* C3: in every state reached by Initialize, SetCell (inside the grid) and
\* Tick events, i is in aliveCells iff status[i] is true.
C3_AliveInvariant == Initialized => AliveInvariant

\* C4: right after an Initialize(height, width), status is all-false of
\* length height*width and both sets are empty.
C4_InitializeResets ==
  lastAction = "init" =>
    /\ status = [i \in 0..(settings.height * settings.width - 1) |-> FALSE]
    /\ aliveCells = {}
    /\ deadCellsWithAliveNeighbours = {}

\* C5: once a grid with cells is initialized, no Tick and no SetCell inside
\* the grid fails: the accumulator never throws on a missing neighbour list.
\* (The neighbour map is empty until an 'init' action is handled, and no
\* action changes it after a throw.)
C5_TransitionsTotal == DOMAIN neighbours # {} => ~failed

\* C6: a SetCell handled on the initial empty Field, before any Initialize,
\* does not fail and leaves the Field empty.
C6_SetCellBeforeInitIsNoOp ==
  (lastAction = "set-status" /\ settings = NoSettings) =>
    (~failed /\ CurrentField = EmptyField)

\* C7: a Tick handled on the initial empty Field, before any Initialize,
\* does not fail and leaves status, both sets and neighbours empty.
C7_TickBeforeInitIsNoOp ==
  (lastAction = "tick" /\ settings = NoSettings) =>
    (~failed /\ CurrentField = EmptyField)

\* a Tick was handled on the empty Field
C7_Witness == lastAction = "tick" /\ settings = NoSettings

\* C8: on a Field in which both set invariants hold, any single SetCell with
\* an index inside the grid, to true or to false, leaves the frontier
\* invariant holding for every cell.  (Under SpecField every step sets
\* lastAction, so a step into lastAction = "set-status" that did not throw is
\* a FieldSetCell step with an index of the grid.)
C8_SetCellKeepsFrontier ==
  [][(lastAction' = "set-status" /\ ~failed' /\ AliveInvariant /\ FrontierInvariant)
       => FrontierInvariant']_vars

\* a SetCell was handled on a grid with several alive cells, frontier cells and dead
\* cells outside the frontier
C8_Witness ==
  /\ lastAction = "set-status"
  /\ ~failed
  /\ Cardinality(aliveCells) >= 2
  /\ deadCellsWithAliveNeighbours # {}
  /\ \E i \in DOMAIN status : ~status[i] /\ i \notin deadCellsWithAliveNeighbours

\* C9: in every reachable state, SetCell(i, status[i]) for a cell i of the
\* grid leaves status, aliveCells, deadCellsWithAliveNeighbours and
\* neighbours as they were.
C9_ResetIsIdempotent ==
  [][\A index \in DOMAIN status :
       SetCell(index, status[index]) => UNCHANGED fieldVars]_vars

\* C10: while play is false (after play(false), until the next play(true))
\* no Tick can be delivered to the reducer: no timer is left scheduled.
C10_NoTickWhileStopped == ~playing => (timer # "scheduled" /\ ~ENABLED Tick)

\* play(false) arrived while a tick was scheduled: the timer was cleared
C10_Witness == ~playing /\ ~failed /\ timer = "cleared"

\* ------------------------------------------------- getNeighbours taken alone
\* getNeighbours called once on an index of a height x width grid.
InitNeighbours ==
  /\ status = EmptyField.status
  /\ aliveCells = EmptyField.aliveCells
  /\ deadCellsWithAliveNeighbours = EmptyField.deadCellsWithAliveNeighbours
  /\ neighbours = EmptyField.neighbours
  /\ failed = FALSE
  /\ settings = NoSettings
  /\ playing = FALSE
  /\ timer = "none"
  /\ remaining = 0
  /\ lastAction = "none"
  /\ observer = NoObserver
  /\ pattern = NoPattern
  /\ \E d \in NeighbourDims : \E index \in 0..(d[1] * d[2] - 1) :
       query = [height |-> d[1], width |-> d[2], index |-> index, result |-> <<>>]

\* this.getNeighbours(index, height, width), as the map() of initField$ calls it
CallGetNeighbours ==
  /\ query.result = <<>>
  /\ query' = [query EXCEPT !.result = getNeighbours(query.index, query.height, query.width)]
  /\ UNCHANGED <<fieldVars, failed, controlVars, lastAction, observer, pattern>>

NextNeighbours == CallGetNeighbours

SpecNeighbours == InitNeighbours /\ [][NextNeighbours]_vars

\* the 8 directions in the order of the returned array: top-left, top,
\* top-right, left, right, bottom-left, bottom, bottom-right
Directions ==
  << <<-1, -1>>, <<-1, 0>>, <<-1, 1>>, <<0, -1>>, <<0, 1>>, <<1, -1>>, <<1, 0>>, <<1, 1>> >>

\* the cell one step in direction dir from the queried cell, on the torus
ToroidalCell(dir) ==
  LET row == query.index \div query.width
      col == query.index % query.width
  IN ((row + dir[1] + query.height) % query.height) * query.width
       + ((col + dir[2] + query.width) % query.width)

\* the result has 8 entries, entry k is the cell in direction k, inside the grid
OnePerDirection ==
  /\ DOMAIN query.result = 1..8
  /\ \A k \in 1..8 :
       /\ query.result[k] = ToroidalCell(Directions[k])
       /\ query.result[k] \in 0..(query.height * query.width - 1)

PairwiseDistinct == Cardinality(Elements(query.result)) = 8

\* C17 (as stated): for height >= 2 and width >= 2, getNeighbours returns 8
\* pairwise distinct indices, one per toroidal direction, each inside the grid.
C17_EightDistinctFromTwo ==
  (query.result # <<>> /\ query.height >= 2 /\ query.width >= 2) =>
    (OnePerDirection /\ PairwiseDistinct)

\* C17 (amended): for height >= 2 and width >= 2, getNeighbours returns 8
\* indices, one per toroidal direction, each inside the grid; they are
\* pairwise distinct when height >= 3 and width >= 3.
C17_EightPerDirection ==
  (query.result # <<>> /\ query.height >= 2 /\ query.width >= 2) =>
    /\ OnePerDirection
    /\ (query.height >= 3 /\ query.width >= 3) => PairwiseDistinct

\* getNeighbours was called on the last cell of a grid of 3 x 3 or more,
\* where the bottom and the right neighbours wrap
C17_Witness ==
  /\ query.result # <<>>
  /\ query.height >= 3
  /\ query.width >= 3
  /\ query.index = query.height * query.width - 1

\* C18: for height >= 1 and width >= 1 and every index of the grid, each of
\* the 8 indices getNeighbours returns lies in [0, height*width).
C18_NeighboursInRange ==
  query.result # <<>> =>
    \A k \in DOMAIN query.result : query.result[k] \in 0..(query.height * query.width - 1)

\* getNeighbours was called on the first cell of the last row of a grid with
\* a side of 1
C18_Witness ==
  /\ query.result # <<>>
  /\ (query.height = 1 \/ query.width = 1)
  /\ query.index = (query.height - 1) * query.width

\* --------------------------------------------------- patterns under Ticks
\* Initialize(height, width), SetCell(i, true) for every cell of a pattern,
\* then Ticks only.
RECURSIVE Place(_, _)
Place(field, cells) ==
  IF cells = {} THEN field
  ELSE LET index == CHOOSE i \in cells : \A j \in cells : i <= j
       IN Place(setStatusAction(field, index, TRUE).field, cells \ {index})

\* flat index of the cell at (row, col), taken modulo the sides of the torus
CellAt(height, width, row, col) == (row % height) * width + (col % width)

\* three cells in a row, horizontal or vertical, from every anchor cell
Blinkers(height, width) ==
  {{CellAt(height, width, r, c), CellAt(height, width, r, c + 1), CellAt(height, width, r, c + 2)} :
     r \in 0..(height - 1), c \in 0..(width - 1)}
  \cup
  {{CellAt(height, width, r, c), CellAt(height, width, r + 1, c), CellAt(height, width, r + 2, c)} :
     r \in 0..(height - 1), c \in 0..(width - 1)}

\* a 2x2 block from every anchor cell
Blocks(height, width) ==
  {{CellAt(height, width, r, c), CellAt(height, width, r, c + 1),
    CellAt(height, width, r + 1, c), CellAt(height, width, r + 1, c + 1)} :
     r \in 0..(height - 1), c \in 0..(width - 1)}

\* the glider (1,2),(2,3),(3,1),(3,2),(3,3) of the 5x5 grid
Glider == {7, 13, 16, 17, 18}

PatternsOn(height, width) ==
  {[kind |-> "blinker", cells |-> cells, generation |-> 0] : cells \in Blinkers(height, width)}
  \cup {[kind |-> "block", cells |-> cells, generation |-> 0] : cells \in Blocks(height, width)}
  \cup (IF height = 5 /\ width = 5
          THEN {[kind |-> "glider", cells |-> Glider, generation |-> 0]}
          ELSE {})

InitPattern ==
  /\ \E d \in PatternDims : \E p \in PatternsOn(d[1], d[2]) :
       LET placed == Place(initAction(EmptyField, initField(d[1], d[2])), p.cells)
       IN /\ status = placed.status
          /\ aliveCells = placed.aliveCells
          /\ deadCellsWithAliveNeighbours = placed.deadCellsWithAliveNeighbours
          /\ neighbours = placed.neighbours
          /\ settings = [height |-> d[1], width |-> d[2], text |-> FALSE, interval |-> 0]
          /\ pattern = p
  /\ failed = FALSE
  /\ playing = FALSE
  /\ timer = "none"
  /\ remaining = 0
  /\ lastAction = "set-status"
  /\ observer = NoObserver
  /\ query = NoQuery

\* scan hands a 'tick' action to tickAction; the pattern is one generation older
PatternTick ==
  /\ pattern.generation < MaxGenerations
  /\ FieldTick
  /\ pattern' = [pattern EXCEPT !.generation = @ + 1]
  /\ UNCHANGED <<observer, query>>

NextPattern == PatternTick

SpecPattern == InitPattern /\ [][NextPattern]_vars

\* C14: three alive cells in a row, anywhere on a grid of at least 5x5, are
\* back after two Ticks: aliveCells is the set it was before them.
C14_BlinkerPeriodTwo ==
  (pattern.kind = "blinker" /\ pattern.generation = 2) =>
    (~failed /\ aliveCells = pattern.cells)

\* C15: a 2x2 block of alive cells, anywhere on the grid, stays: after any
\* number of Ticks aliveCells is that block.
C15_BlockIsStill ==
  pattern.kind = "block" => (~failed /\ aliveCells = pattern.cells)

\* C16: the glider 7,13,16,17,18 of the 5x5 torus is 11,13,17,18,22 after one
\* Tick and 13,19,22,23,24 (the shape moved by (1,1)) after four Ticks.
C16_Glider ==
  pattern.kind = "glider" =>
    /\ ~failed
    /\ pattern.generation = 0 => aliveCells = {7, 13, 16, 17, 18}
    /\ pattern.generation = 1 => aliveCells = {11, 13, 17, 18, 22}
    /\ pattern.generation = 4 => aliveCells = {13, 19, 22, 23, 24}

\* the glider has been through four Ticks
C16_Witness == pattern.kind = "glider" /\ pattern.generation = 4 /\ lastAction = "tick"

\* C19: after every Tick that completes, whatever the state before it, cell 0
\* is dead: 0 is not in aliveCells and status[0] is false.
C19_CellZeroDeadAfterTick ==
  (lastAction = "tick" /\ ~failed) => (0 \notin aliveCells /\ ~StatusAt(status, 0))

\* a Tick left alive cells next to cell 0
C19_Witness ==
  /\ lastAction = "tick"
  /\ ~failed
  /\ aliveCells # {}
  /\ HasAliveNeighbour(0)

\* ------------------------------------- the reducer taken alone, with resizes
\* The fold of scan over an arbitrary stream of 'init', 'set-status' and
\* 'tick' actions from the seed.  The observer records the last action and
\* whether both set invariants held in the Field it was handled on.
\* An 'init' action carries the grid of any settings emission, the width a
\* number or a string.
ObservedAs(event) ==
  observer' = [event |-> event, valid |-> AliveInvariant /\ FrontierInvariant]

\* scan hands an 'init' action to initAction; initField$ only lets through
\* dimensions that differ from the previous ones
FieldInit(height, width, text) ==
  /\ ~failed
  /\ ~(settings.height = height /\ settings.width = width /\ settings.text = text)
  /\ SetField(initAction(CurrentField, initFieldOf(height, width, text)))
  /\ settings' = [height |-> height, width |-> width, text |-> text, interval |-> 0]
  /\ lastAction' = "init"
  /\ UNCHANGED <<failed, playing, timer, remaining>>

NextResized ==
  \/ \E e \in ResizedEmissions :
       FieldInit(e[1][1], e[1][2], e[2]) /\ ObservedAs("init") /\ UNCHANGED <<pattern, query>>
  \/ FieldTick /\ ObservedAs("tick") /\ UNCHANGED <<pattern, query>>
  \/ \E index \in CellIndices, value \in BOOLEAN :
       FieldSetCell(index, value) /\ ObservedAs("set-status") /\ UNCHANGED <<pattern, query>>

SpecResized == Init /\ [][NextResized]_vars

\* the two set invariants at the cells of the grid
GridInvariants ==
  \A i \in DOMAIN status :
    /\ (i \in aliveCells) <=> status[i]
    /\ (i \in deadCellsWithAliveNeighbours) <=> (~status[i] /\ HasAliveNeighbour(i))

\* C20: every Tick that completes returns a Field in which both set
\* invariants hold, also when they did not hold before it: for every index i
\* of the grid, i is in aliveCells iff status[i] is true, and i is in
\* deadCellsWithAliveNeighbours iff status[i] is false and some neighbour of
\* i is alive.
C20_TickRestoresInvariants == (lastAction = "tick" /\ ~failed) => GridInvariants

\* ----------------------------------------------------- the observed pipeline
\* The pipeline of Spec on small grids, with an observer that records the
\* last event and follows the current timer session: what started it (a
\* play(true), or a change of the interval setting while playing), the time
\* elapsed since and the Ticks delivered since.
NoSession == [origin |-> "none", elapsed |-> 0, ticks |-> 0]

Observation(event, session) ==
  [event |-> event, origin |-> session.origin, elapsed |-> session.elapsed,
   ticks |-> session.ticks]

Session == [origin |-> observer.origin, elapsed |-> observer.elapsed, ticks |-> observer.ticks]

\* the session ends when the accumulator throws (Shutdown)
SessionUnlessFailed(session) == IF failed' THEN NoSession ELSE session

InitObserved ==
  /\ status = EmptyField.status
  /\ aliveCells = EmptyField.aliveCells
  /\ deadCellsWithAliveNeighbours = EmptyField.deadCellsWithAliveNeighbours
  /\ neighbours = EmptyField.neighbours
  /\ failed = FALSE
  /\ settings = NoSettings
  /\ playing = FALSE
  /\ timer = "none"
  /\ remaining = 0
  /\ lastAction = "none"
  /\ observer = Observation("none", NoSession)
  /\ pattern = NoPattern
  /\ query = NoQuery

ObservedSettingsEmit(height, width, text, time) ==
  /\ SettingsEmit(height, width, text, time)
  /\ observer' = Observation("settings",
                             IF playing /\ settings.interval # time
                               THEN [origin |-> "interval", elapsed |-> 0, ticks |-> 0]
                               ELSE Session)

ObservedPlayStart ==
  /\ PlayStart
  /\ observer' = Observation("play", [origin |-> "play", elapsed |-> 0, ticks |-> 0])

ObservedPlayStop ==
  /\ PlayStop
  /\ observer' = Observation("stop", NoSession)

ObservedAdvance ==
  /\ observer.elapsed < MaxElapsed
  /\ Advance
  /\ observer' = Observation("advance", [Session EXCEPT !.elapsed = @ + 1])

ObservedTick ==
  /\ Tick
  /\ observer' = Observation("tick", SessionUnlessFailed([Session EXCEPT !.ticks = @ + 1]))

ObservedSetCell(index, value) ==
  /\ SetCell(index, value)
  /\ observer' = Observation("set-status", SessionUnlessFailed(Session))

NextObserved ==
  \/ \E e \in ObservedEmissions, time \in Intervals :
       ObservedSettingsEmit(e[1][1], e[1][2], e[2], time) /\ UNCHANGED <<pattern, query>>
  \/ ObservedPlayStart /\ UNCHANGED <<pattern, query>>
  \/ ObservedPlayStop /\ UNCHANGED <<pattern, query>>
  \/ ObservedAdvance /\ UNCHANGED <<pattern, query>>
  \/ ObservedTick /\ UNCHANGED <<pattern, query>>
  \/ \E index \in CellIndices, value \in BOOLEAN :
       ObservedSetCell(index, value) /\ UNCHANGED <<pattern, query>>

SpecObserved == InitObserved /\ [][NextObserved]_vars

\* C11: after the interval setting changed while playing, the first Tick is
\* due exactly one new interval after the change: as long as play stays true
\* and no Tick of the new period has fired, the time elapsed since the change
\* plus the time left on the timer is the new interval.
C11_FirstTickOneIntervalAfterChange ==
  (playing /\ timer = "scheduled" /\ observer.origin = "interval" /\ observer.ticks = 0) =>
    observer.elapsed + remaining = settings.interval

\* C12: while play stays true and the interval setting stays the same, the
\* k-th Tick is due exactly k intervals after play became true, whatever
\* other events happen in between.
C12_StrictlyPeriodic ==
  (playing /\ timer = "scheduled" /\ observer.origin = "play") =>
    observer.elapsed + remaining = (observer.ticks + 1) * settings.interval

\* the grid part of a settings emission: height and width as emitted
GridOf(emitted) == <<emitted.height, emitted.width, emitted.text>>

\* C13: an Initialize reaches the reducer on the first settings emission and
\* afterwards exactly on an emission that differs from the previous one in
\* height or width (as values: a number and its string differ); any other
\* emission leaves the Field as it was.
C13_InitializeOnDimensionChange ==
  [][IF observer'.event = "settings"
       THEN IF GridOf(settings') # GridOf(settings)
              THEN /\ lastAction' = "init"
                   /\ status' = initFieldOf(settings'.height, settings'.width,
                                            settings'.text).status
                   /\ neighbours' = initFieldOf(settings'.height, settings'.width,
                                                settings'.text).neighbours
              ELSE UNCHANGED <<fieldVars, lastAction>>
       ELSE neighbours' = neighbours /\ (lastAction' = "init" => lastAction = "init")]_vars
====
